---- MODULE Spec2Model ----
(***************************************************************************)
(* Model of the ERC4626Vault NEAR contract (src/src/lib.rs) together with  *)
(* the withdrawal helpers of src/src/internal.rs.                          *)
(*                                                                         *)
(* The vault keeps a share ledger (token: near_contract_standards          *)
(* FungibleToken, i.e. a map of registered accounts to balances plus a     *)
(* total supply), the accounted total_assets and the immutable asset       *)
(* descriptor.  A call that panics is reverted by the host: it leaves the  *)
(* contract state untouched.  Outbound transfers are promises that the     *)
(* host settles later, one step at a time.                                 *)
(***************************************************************************)
EXTENDS Integers, Sequences, FiniteSets, TLC

\* ---------------------------------------------------------------- bounds
\* u128::MAX scaled down: every u128 quantity lives in 0..U128_MAX.
U128_MAX == 5
\* Largest amount argument a caller passes (deposit amount, shares, assets).
MaxAmount == 3
\* Units of the underlying asset in circulation at the external ledger.
ExtSupply == 4
\* Number of withdrawals whose transfer can be in flight at the same time.
MaxInFlight == 1

Users == {"alice", "bob"}
AssetContract == "usdt.near"
VaultAccount == "vault.near"
TokenId == "tok-1"
OtherTokenId == "tok-2"
\* msg payloads of a transfer notification: the keyword the handlers look
\* for and the empty intent the test helper sends.
Msgs == {"deposit", "{}"}

\* Result markers: a panicking call, and a promise that resolves to nothing.
PANIC == -1
VOID == -2
NoAccount == "none"

VARIABLES
    asset,            \* self.asset            (lib.rs:32)
    total_assets,     \* self.total_assets     (lib.rs:33)
    accounts,         \* self.token.accounts   (lib.rs:30), registered -> balance
    total_supply,     \* self.token.total_supply
    overflow_checks,  \* build profile: does integer overflow panic or wrap
    held,             \* units of the asset the vault owns at the external ledger
    sagas,            \* slots of the outbound transfers handed to the host
    snap,             \* the vault before the latest withdrawal call, while nothing else ran
    last              \* the call executed by the latest step and its outcome

vars == <<asset, total_assets, accounts, total_supply, overflow_checks, held, sagas, snap, last>>

\* ------------------------------------------------------ checked arithmetic
\* Rust `a + b` on u128: panics when overflow checks are compiled in, wraps
\* otherwise.  PANIC operands propagate.
U128Add(a, b) ==
    IF a = PANIC \/ b = PANIC THEN PANIC
    ELSE IF a + b <= U128_MAX THEN a + b
    ELSE IF overflow_checks THEN PANIC
    ELSE (a + b) % (U128_MAX + 1)

\* Rust `a - b` on u128.
U128Sub(a, b) ==
    IF a = PANIC \/ b = PANIC THEN PANIC
    ELSE IF a >= b THEN a - b
    ELSE IF overflow_checks THEN PANIC
    ELSE (a - b + U128_MAX + 1) % (U128_MAX + 1)

\* u128::checked_add(...).expect / unwrap_or_else(panic)
CheckedAdd(a, b) == IF a = PANIC \/ b = PANIC \/ a + b > U128_MAX THEN PANIC ELSE a + b

\* u128::checked_sub
CheckedSub(a, b) == IF a = PANIC \/ b = PANIC \/ a < b THEN PANIC ELSE a - b

\* ------------------------------------------------------------ mul_div.rs
Rounding == {"Down", "Up"}

\* Variant: rounding up adds one whether or not there is a remainder.
mul_div_up_always(x, y, denominator, rounding) ==
    IF x = PANIC \/ y = PANIC \/ denominator = PANIC THEN PANIC
    ELSE IF x * y > U128_MAX THEN PANIC
    ELSE IF denominator = 0 THEN PANIC
    ELSE LET quotient == (x * y) \div denominator
         IN IF rounding = "Down" THEN quotient ELSE U128Add(quotient, 1)

\* Variant: the product wraps instead of failing.
mul_div_wrapping(x, y, denominator, rounding) ==
    IF x = PANIC \/ y = PANIC \/ denominator = PANIC THEN PANIC
    ELSE IF denominator = 0 THEN PANIC
    ELSE LET numerator == (x * y) % (U128_MAX + 1)
             quotient == numerator \div denominator
             remainder == numerator % denominator
         IN IF rounding = "Down" THEN quotient
            ELSE IF remainder > 0 THEN U128Add(quotient, 1) ELSE quotient

\* Variant: the quotient is truncated under either rounding.
mul_div_truncating(x, y, denominator, rounding) ==
    IF x = PANIC \/ y = PANIC \/ denominator = PANIC THEN PANIC
    ELSE IF x * y > U128_MAX THEN PANIC
    ELSE IF denominator = 0 THEN PANIC
    ELSE (x * y) \div denominator

mul_div(x, y, denominator, rounding) ==
    IF x = PANIC \/ y = PANIC \/ denominator = PANIC THEN PANIC
    ELSE IF x * y > U128_MAX THEN PANIC               \* checked_mul(..).expect
    ELSE IF denominator = 0 THEN PANIC                \* division by zero
    ELSE LET numerator == x * y
             quotient == numerator \div denominator
             remainder == numerator % denominator
         IN IF rounding = "Down" THEN quotient
            ELSE IF remainder > 0 THEN U128Add(quotient, 1) ELSE quotient

\* ------------------------------------------------- conversion (lib.rs)
\* The conversions read the vault through a state record
\* st = [accounts, total_supply, total_assets].
\* Variant: the offset is applied to the supply side as well.
convert_to_shares_internal_offset_both(st, assets, rounding) ==
    LET supply_adj == U128Add(st.total_supply, 1)
        assets_adj == U128Add(st.total_assets, 1)
    IN mul_div(assets, supply_adj, assets_adj, rounding)

convert_to_shares_internal(st, assets, rounding) ==
    LET supply_adj == st.total_supply
        assets_adj == U128Add(st.total_assets, 1)
    IN mul_div(assets, supply_adj, assets_adj, rounding)

\* Variant: the empty supply is not special-cased.
convert_to_assets_internal_no_guard(st, shares, rounding) ==
    LET supply_adj == st.total_supply
        assets_adj == U128Add(st.total_assets, 1)
    IN mul_div(shares, assets_adj, supply_adj, rounding)

convert_to_assets_internal(st, shares, rounding) ==
    IF st.total_supply = 0 THEN 0
    ELSE LET supply_adj == st.total_supply
             assets_adj == U128Add(st.total_assets, 1)
         IN mul_div(shares, assets_adj, supply_adj, rounding)

\* Variant: the shares of a deposit are rounded up.
convert_to_shares_up(st, assets) == convert_to_shares_internal(st, assets, "Up")

convert_to_shares(st, assets) == convert_to_shares_internal(st, assets, "Down")

convert_to_assets(st, shares) == convert_to_assets_internal(st, shares, "Down")

preview_deposit(st, assets) == convert_to_shares(st, assets)

preview_redeem(st, shares) == convert_to_assets(st, shares)

preview_withdraw(st, assets) == convert_to_shares_internal(st, assets, "Up")

\* ---------------------------------------------------- share ledger (token)
ft_balance_of(st, account_id) ==
    IF account_id \in DOMAIN st.accounts THEN st.accounts[account_id] ELSE 0

max_redeem(st, owner_id) == ft_balance_of(st, owner_id)

max_withdraw(st, owner) ==
    convert_to_shares_internal(st, ft_balance_of(st, owner), "Down")

\* The current contract state as a record, and a failed (reverted) outcome.
Self == [accounts |-> accounts, total_supply |-> total_supply, total_assets |-> total_assets]

\* FungibleToken::internal_deposit: credit `amount` to a registered account.
\* Yields the new state, or ok = FALSE when the library panics.
internal_deposit(st, account_id, amount) ==
    IF account_id \notin DOMAIN st.accounts \/ amount = PANIC
    THEN [ok |-> FALSE, st |-> st]
    ELSE LET new_balance == CheckedAdd(st.accounts[account_id], amount)
             new_supply == CheckedAdd(st.total_supply, amount)
         IN IF new_balance = PANIC \/ new_supply = PANIC
            THEN [ok |-> FALSE, st |-> st]
            ELSE [ok |-> TRUE,
                  st |-> [st EXCEPT !.accounts[account_id] = new_balance,
                                    !.total_supply = new_supply]]

\* Variant: the debit leaves the supply as it is.
internal_withdraw_keeps_supply(st, account_id, amount) ==
    IF account_id \notin DOMAIN st.accounts \/ amount = PANIC
    THEN [ok |-> FALSE, st |-> st]
    ELSE LET new_balance == CheckedSub(st.accounts[account_id], amount)
         IN IF new_balance = PANIC
            THEN [ok |-> FALSE, st |-> st]
            ELSE [ok |-> TRUE, st |-> [st EXCEPT !.accounts[account_id] = new_balance]]

\* FungibleToken::internal_withdraw: debit `amount` from a registered account.
internal_withdraw(st, account_id, amount) ==
    IF account_id \notin DOMAIN st.accounts \/ amount = PANIC
    THEN [ok |-> FALSE, st |-> st]
    ELSE LET new_balance == CheckedSub(st.accounts[account_id], amount)
             new_supply == CheckedSub(st.total_supply, amount)
         IN IF new_balance = PANIC \/ new_supply = PANIC
            THEN [ok |-> FALSE, st |-> st]
            ELSE [ok |-> TRUE,
                  st |-> [st EXCEPT !.accounts[account_id] = new_balance,
                                    !.total_supply = new_supply]]

\* ------------------------------------------------------------- promises
\* A slot holds the arguments of a transfer promise (receiver, assets), the
\* number of continuations chained to it (cb) with their arguments (owner,
\* shares), and how far the host has come with it.
Slot(status, cb, owner, receiver, shares, assets) ==
    [status |-> status, cb |-> cb, owner |-> owner, receiver |-> receiver,
     shares |-> shares, assets |-> assets]

\* A slot whose promise chain has ended keeps the outcome only.
Ended(status) == Slot(status, 0, NoAccount, NoAccount, 0, 0)

\* ERC4626Vault::internal_transfer_assets (lib.rs): the bare transfer promise.
internal_transfer_assets(receiver_id, amount) ==
    Slot("Committed", 0, NoAccount, receiver_id, 0, amount)

\* Variant: the continuation is chained twice.
internal_transfer_assets_with_callback_twice(receiver_id, amount, owner, shares) ==
    Slot("Committed", 2, owner, receiver_id, shares, amount)

\* ERC4626Vault::internal_transfer_assets_with_callback (internal.rs): the
\* transfer promise with one resolve_withdraw continuation chained to it.
internal_transfer_assets_with_callback(receiver_id, amount, owner, shares) ==
    Slot("Committed", 1, owner, receiver_id, shares, amount)

\* ------------------------------------------------------------- handlers
\* Outcome of a call that panicked: the host reverts every state change.
Reverted(st) ==
    [ok |-> FALSE, st |-> st, ret |-> PANIC, rets |-> <<>>,
     promise |-> Ended("Idle"), shares |-> 0]

\* Outcome of a call that returned a plain value.
Returned(st, ret, rets) ==
    [ok |-> TRUE, st |-> st, ret |-> ret, rets |-> rets,
     promise |-> Ended("Idle"), shares |-> 0]

\* Outcome of a call that burned `shares` and returned a promise.
Promised(st, promise, shares) ==
    [ok |-> TRUE, st |-> st, ret |-> VOID, rets |-> <<>>,
     promise |-> promise, shares |-> shares]

\* `self.total_assets += amount`
AddAssets(st, amount) ==
    LET t == U128Add(st.total_assets, amount)
    IN IF t = PANIC THEN [ok |-> FALSE, st |-> st]
       ELSE [ok |-> TRUE, st |-> [st EXCEPT !.total_assets = t]]

\* `self.total_assets -= amount`
SubAssets(st, amount) ==
    LET t == U128Sub(st.total_assets, amount)
    IN IF t = PANIC THEN [ok |-> FALSE, st |-> st]
       ELSE [ok |-> TRUE, st |-> [st EXCEPT !.total_assets = t]]

\* ft_on_transfer without the assertion on the predecessor.
ft_on_transfer_any_caller(st, predecessor, sender_id, amount, msg) ==
    IF asset.kind = "FungibleToken" THEN
        IF msg = "deposit" THEN
            LET shares == convert_to_shares(st, amount)
                dep == internal_deposit(st, sender_id, shares)
                add == AddAssets(dep.st, amount)
            IN IF shares = PANIC \/ ~dep.ok \/ ~add.ok THEN Reverted(st)
               ELSE Returned(add.st, 0, <<>>)
        ELSE
            LET add == AddAssets(st, amount)
            IN IF ~add.ok THEN Reverted(st) ELSE Returned(add.st, 0, <<>>)
    ELSE Returned(st, amount, <<>>)

\* FungibleTokenReceiver::ft_on_transfer (lib.rs).
ft_on_transfer(st, predecessor, sender_id, amount, msg) ==
    IF asset.kind = "FungibleToken" THEN
        IF predecessor # asset.contract_id THEN Reverted(st)
        ELSE IF msg = "deposit" THEN
            LET shares == convert_to_shares(st, amount)
                dep == internal_deposit(st, sender_id, shares)
                add == AddAssets(dep.st, amount)
            IN IF shares = PANIC \/ ~dep.ok \/ ~add.ok THEN Reverted(st)
               ELSE Returned(add.st, 0, <<>>)
        ELSE
            LET add == AddAssets(st, amount)
            IN IF ~add.ok THEN Reverted(st) ELSE Returned(add.st, 0, <<>>)
    ELSE Returned(st, amount, <<>>)

\* handle_mt_deposit without the assertion on the item id.
handle_mt_deposit_any_token(st, predecessor, sender_id, token_ids, amounts, msg) ==
    IF asset.kind = "MultiToken" THEN
        IF \/ predecessor # asset.contract_id
           \/ Len(token_ids) # 1
           \/ Len(amounts) # 1
        THEN Reverted(st)
        ELSE LET amount == amounts[1] IN
            IF msg = "deposit" THEN
                LET shares == convert_to_shares_internal(st, amount, "Down")
                    dep == internal_deposit(st, sender_id, shares)
                    add == AddAssets(dep.st, amount)
                IN IF shares = PANIC \/ ~dep.ok \/ ~add.ok THEN Reverted(st)
                   ELSE Returned(add.st, 0, <<0>>)
            ELSE
                LET add == AddAssets(st, amount)
                IN IF ~add.ok THEN Reverted(st) ELSE Returned(add.st, 0, <<0>>)
    ELSE Returned(st, 0, amounts)

\* ERC4626Vault::handle_mt_deposit as called by mt_on_transfer (lib.rs).
handle_mt_deposit(st, predecessor, sender_id, token_ids, amounts, msg) ==
    IF asset.kind = "MultiToken" THEN
        IF \/ predecessor # asset.contract_id
           \/ Len(token_ids) # 1
           \/ Len(amounts) # 1
           \/ token_ids[1] # asset.token_id
        THEN Reverted(st)
        ELSE LET amount == amounts[1] IN
            IF msg = "deposit" THEN
                LET shares == convert_to_shares_internal(st, amount, "Down")
                    dep == internal_deposit(st, sender_id, shares)
                    add == AddAssets(dep.st, amount)
                IN IF shares = PANIC \/ ~dep.ok \/ ~add.ok THEN Reverted(st)
                   ELSE Returned(add.st, 0, <<0>>)
            ELSE
                LET add == AddAssets(st, amount)
                IN IF ~add.ok THEN Reverted(st) ELSE Returned(add.st, 0, <<0>>)
    ELSE Returned(st, 0, amounts)

mt_on_transfer(st, predecessor, sender_id, token_ids, amounts, msg) ==
    handle_mt_deposit(st, predecessor, sender_id, token_ids, amounts, msg)

\* ERC4626Vault::handle_mt_deposit of internal.rs: every accepted
\* notification mints to the sender, whatever the message.
internal_handle_mt_deposit(st, predecessor, sender_id, token_ids, amounts, msg) ==
    IF asset.kind = "MultiToken" THEN
        IF \/ predecessor # asset.contract_id
           \/ Len(token_ids) # 1
           \/ Len(amounts) # 1
           \/ token_ids[1] # asset.token_id
        THEN Reverted(st)
        ELSE LET amount == amounts[1]
                 shares == convert_to_shares_internal(st, amount, "Down")
                 dep == internal_deposit(st, sender_id, shares)
                 add == AddAssets(dep.st, amount)
             IN IF shares = PANIC \/ ~dep.ok \/ ~add.ok THEN Reverted(st)
                ELSE Returned(add.st, 0, <<0>>)
    ELSE Returned(st, 0, amounts)

\* Entry wrapper generated for a `&mut self` method that is not #[payable]:
\* the call panics when a deposit is attached.
NonPayable(st, attached, outcome) ==
    IF attached # 0 THEN Reverted(st) ELSE outcome

\* Variant: the receiver is not defaulted to the owner.
redeem_no_default(st, predecessor, shares, receiver_id) ==
    LET owner == predecessor
        assets == convert_to_assets_internal(st, shares, "Down")
        burn == internal_withdraw(st, owner, shares)
        sub == SubAssets(burn.st, assets)
    IN IF assets = PANIC \/ ~burn.ok \/ ~sub.ok THEN Reverted(st)
       ELSE Promised(sub.st, internal_transfer_assets(receiver_id, assets), shares)

\* FungibleTokenVaultCore::redeem (lib.rs).
redeem(st, predecessor, shares, receiver_id) ==
    LET owner == predecessor
        receiver == IF receiver_id = NoAccount THEN owner ELSE receiver_id
        assets == convert_to_assets_internal(st, shares, "Down")
        burn == internal_withdraw(st, owner, shares)
        sub == SubAssets(burn.st, assets)
    IN IF assets = PANIC \/ ~burn.ok \/ ~sub.ok THEN Reverted(st)
       ELSE Promised(sub.st, internal_transfer_assets(receiver, assets), shares)

\* Variant: total assets are lowered by the shares burned.
withdraw_less_shares(st, predecessor, assets, receiver_id) ==
    LET owner == predecessor
        receiver == IF receiver_id = NoAccount THEN owner ELSE receiver_id
        shares == convert_to_shares_internal(st, assets, "Up")
        burn == internal_withdraw(st, owner, shares)
        sub == SubAssets(burn.st, shares)
    IN IF shares = PANIC \/ ~burn.ok \/ ~sub.ok THEN Reverted(st)
       ELSE Promised(sub.st, internal_transfer_assets(receiver, assets), shares)

\* FungibleTokenVaultCore::withdraw (lib.rs).
withdraw(st, predecessor, assets, receiver_id) ==
    LET owner == predecessor
        receiver == IF receiver_id = NoAccount THEN owner ELSE receiver_id
        shares == convert_to_shares_internal(st, assets, "Up")
        burn == internal_withdraw(st, owner, shares)
        sub == SubAssets(burn.st, assets)
    IN IF shares = PANIC \/ ~burn.ok \/ ~sub.ok THEN Reverted(st)
       ELSE Promised(sub.st, internal_transfer_assets(receiver, assets), shares)

\* ERC4626Vault::internal_execute_withdrawal (internal.rs): checks, then
\* burn and decrement, then the transfer with its continuation.
internal_execute_withdrawal(st, owner, receiver_id, shares_to_burn, assets_to_transfer) ==
    LET receiver == IF receiver_id = NoAccount THEN owner ELSE receiver_id
        burn == internal_withdraw(st, owner, shares_to_burn)
        sub == SubAssets(burn.st, assets_to_transfer)
    IN IF \/ ~(ft_balance_of(st, owner) >= shares_to_burn)
          \/ ~(assets_to_transfer > 0)
          \/ ~(assets_to_transfer <= st.total_assets)
          \/ ~burn.ok \/ ~sub.ok
       THEN Reverted(st)
       ELSE Promised(sub.st,
                     internal_transfer_assets_with_callback(
                         receiver, assets_to_transfer, owner, shares_to_burn),
                     shares_to_burn)

\* Variant: the shares to credit back are recomputed from the assets at the
\* exchange rate of the moment.
resolve_withdraw_recomputes(st, predecessor, transferred, owner, receiver, shares, assets) ==
    IF predecessor # VaultAccount THEN Reverted(st)
    ELSE IF transferred THEN Returned(st, assets, <<>>)
    ELSE LET dep == internal_deposit(st, owner, convert_to_shares_internal(st, assets, "Down"))
             add == AddAssets(dep.st, assets)
         IN IF ~dep.ok \/ ~add.ok THEN Reverted(st) ELSE Returned(add.st, 0, <<>>)

\* Variant: the continuation credits back whatever the transfer did.
resolve_withdraw_recredits(st, predecessor, transferred, owner, receiver, shares, assets) ==
    IF predecessor # VaultAccount THEN Reverted(st)
    ELSE LET dep == internal_deposit(st, owner, shares)
             add == AddAssets(dep.st, assets)
         IN IF ~dep.ok \/ ~add.ok THEN Reverted(st)
            ELSE Returned(add.st, IF transferred THEN assets ELSE 0, <<>>)

\* Variant: the continuation runs for whoever calls it.
resolve_withdraw_public(st, predecessor, transferred, owner, receiver, shares, assets) ==
    IF transferred THEN Returned(st, assets, <<>>)
    ELSE LET dep == internal_deposit(st, owner, shares)
             add == AddAssets(dep.st, assets)
         IN IF ~dep.ok \/ ~add.ok THEN Reverted(st) ELSE Returned(add.st, 0, <<>>)

\* The resolve_withdraw continuation named by internal.rs: only the vault
\* itself may call it.  After a successful transfer it returns the assets;
\* after a failed one it credits the shares back to the owner, adds the
\* assets back and returns 0.
resolve_withdraw(st, predecessor, transferred, owner, receiver, shares, assets) ==
    IF predecessor # VaultAccount THEN Reverted(st)
    ELSE IF transferred THEN Returned(st, assets, <<>>)
    ELSE LET dep == internal_deposit(st, owner, shares)
             add == AddAssets(dep.st, assets)
         IN IF ~dep.ok \/ ~add.ok THEN Reverted(st) ELSE Returned(add.st, 0, <<>>)

\* ---------------------------------------------------------------- state
FtAsset == [kind |-> "FungibleToken", contract_id |-> AssetContract]
MtAsset == [kind |-> "MultiToken", contract_id |-> AssetContract, token_id |-> TokenId]

Amounts == 0..MaxAmount
Slots == 1..MaxInFlight
\* Who calls a notification handler on behalf of which sender: the asset
\* contract for either user, or somebody else.
\* The two users are interchangeable to the contract; alice is the one who
\* registers with the share ledger, bob stays unregistered.
Registrants == {"alice"}
Notifiers == {<<AssetContract, "alice">>, <<AssetContract, "bob">>, <<"bob", "bob">>}

\* Shape of `last`: the operation of the latest step, whether the call
\* completed, and its result.
Call(op, ok, ret) == [op |-> op, ok |-> ok, ret |-> ret]

\* The snapshot taken by a withdrawal call: its slot, the owner and the
\* vault as it was before the call.  Any step that does not belong to that
\* withdrawal drops it.
NoSnap ==
    [slot |-> 0, owner |-> NoAccount, receiver |-> NoAccount, assets |-> 0,
     preT |-> 0, preS |-> 0, preB |-> 0]

\* ERC4626Vault::new: empty ledger, no assets.  The asset descriptor is the
\* constructor's argument; the build profile is fixed before deployment.
Init ==
    /\ asset \in {FtAsset, MtAsset}
    /\ total_assets = 0
    /\ accounts = [u \in {} |-> 0]
    /\ total_supply = 0
    /\ overflow_checks \in BOOLEAN
    /\ held = 0
    /\ sagas = [i \in Slots |-> Ended("Idle")]
    /\ snap = NoSnap
    /\ last = Call("new", TRUE, 0)

\* Write a handler's resulting state back to the contract.
Store(st) ==
    /\ accounts' = st.accounts
    /\ total_supply' = st.total_supply
    /\ total_assets' = st.total_assets

\* A transfer (or its continuation) is still owed by the host.
InFlight(s) == s.status = "Committed" \/ s.cb > 0

Min(a, b) == IF a <= b THEN a ELSE b

\* ------------------------------------------------------------- actions
\* A call that panicked leaves no trace but its failure.  The actions named
\* ...Panics are enabled when some input makes the handler panic; all such
\* inputs lead to the same state.
Failed(op) ==
    /\ last' = Call(op, FALSE, PANIC)
    /\ snap' = NoSnap
    /\ UNCHANGED <<asset, total_assets, accounts, total_supply, overflow_checks, held, sagas>>

\* StorageManagement::storage_deposit: register an account with the share
\* ledger (balance 0); a registered account stays as it is.
storage_deposit(st, account_id) ==
    IF account_id \in DOMAIN st.accounts THEN st
    ELSE [st EXCEPT !.accounts =
            [a \in DOMAIN st.accounts \cup {account_id} |->
                IF a = account_id THEN 0 ELSE st.accounts[a]]]

StorageDeposit ==
    \E u \in Registrants :
        /\ Store(storage_deposit(Self, u))
        /\ snap' = NoSnap
        /\ last' = Call("storage_deposit", TRUE, 0)
        /\ UNCHANGED <<asset, overflow_checks, held, sagas>>

\* A notification sent by the asset contract belongs to a transfer that moved
\* `amount` to the vault, so the units must exist.
Deliverable(caller, amount) == caller = AssetContract => held + amount <= ExtSupply

\* A vault whose asset is of the other kind hands the amount back whoever
\* notifies it and whatever the message: one notifier and one message stand
\* for all of them there.
FtNotifiers ==
    IF asset.kind = "FungibleToken" THEN Notifiers ELSE {<<AssetContract, "alice">>}

FtMsgs == IF asset.kind = "FungibleToken" THEN Msgs ELSE {"deposit"}

MtNotifiers ==
    IF asset.kind = "MultiToken" THEN Notifiers ELSE {<<AssetContract, "alice">>}

MtMsgs == IF asset.kind = "MultiToken" THEN Msgs ELSE {"deposit"}

FtOnTransferOutcome(caller, sender, amount, msg) ==
    ft_on_transfer(Self, caller, sender, amount, msg)

\* A transfer notification reaches ft_on_transfer and the handler returns.
\* When the caller is the asset contract, that contract then takes back the
\* unused part of the amount it had moved to the vault.
FtOnTransferCall(caller, sender, amount, msg) ==
    LET o == FtOnTransferOutcome(caller, sender, amount, msg)
    IN /\ Deliverable(caller, amount)
       /\ o.ok
       /\ Store(o.st)
       /\ held' = IF caller = AssetContract
                  THEN held + (amount - Min(o.ret, amount)) ELSE held
       /\ snap' = NoSnap
       /\ last' = Call("ft_on_transfer", TRUE, o.ret)
       /\ UNCHANGED <<asset, overflow_checks, sagas>>

FtOnTransfer ==
    \E n \in FtNotifiers, amount \in Amounts, msg \in FtMsgs :
        FtOnTransferCall(n[1], n[2], amount, msg)

\* The handler panics: the asset contract takes everything back.
FtOnTransferPanics ==
    /\ ~ \A n \in FtNotifiers, amount \in Amounts, msg \in FtMsgs :
            Deliverable(n[1], amount) =>
                FtOnTransferOutcome(n[1], n[2], amount, msg).ok
    /\ Failed("ft_on_transfer")

\* Batches a multi-token notification may carry (item ids and amounts): no
\* item, the configured item, another item, two items.
Batches ==
    {<<<<>>, <<>>>>, <<<<OtherTokenId>>, <<1>>>>, <<<<TokenId, OtherTokenId>>, <<1, 1>>>>}
        \cup {<<<<TokenId>>, <<a>>>> : a \in Amounts}

\* Units of the configured item a batch carries.
Delivered(token_ids, amounts) ==
    IF Len(token_ids) >= 1 /\ token_ids[1] = TokenId THEN amounts[1] ELSE 0

MtOnTransferOutcome(caller, sender, token_ids, amounts, msg) ==
    mt_on_transfer(Self, caller, sender, token_ids, amounts, msg)

MtOnTransferCall(caller, sender, token_ids, amounts, msg) ==
    LET o == MtOnTransferOutcome(caller, sender, token_ids, amounts, msg)
        amount == Delivered(token_ids, amounts)
        \* units of the configured item kept by the vault
        kept == IF Len(o.rets) >= 1 /\ Len(o.rets) = Len(amounts)
                THEN amount - Min(o.rets[1], amount) ELSE 0
    IN /\ Deliverable(caller, amount)
       /\ o.ok
       /\ Store(o.st)
       /\ held' = IF caller = AssetContract THEN held + kept ELSE held
       /\ snap' = NoSnap
       /\ last' = Call("mt_on_transfer", TRUE, o.ret)
       /\ UNCHANGED <<asset, overflow_checks, sagas>>

MtOnTransfer ==
    \E n \in MtNotifiers, b \in Batches, msg \in MtMsgs :
        MtOnTransferCall(n[1], n[2], b[1], b[2], msg)

MtOnTransferPanics ==
    /\ ~ \A n \in MtNotifiers, b \in Batches, msg \in MtMsgs :
            Deliverable(n[1], Delivered(b[1], b[2])) =>
                MtOnTransferOutcome(n[1], n[2], b[1], b[2], msg).ok
    /\ Failed("mt_on_transfer")

FreeSlot(i) == ~InFlight(sagas[i]) /\ \A j \in Slots : j < i => InFlight(sagas[j])

\* A redeem / withdraw call returned: the transfer promise is handed to the
\* host.  Who receives the units is the external ledger's business: the slot
\* keeps what later steps of the vault read, the snapshot the receiver.
Issue(op, caller, o) ==
    /\ o.ok
    /\ \E i \in Slots :
        /\ FreeSlot(i)
        /\ Store(o.st)
        /\ sagas' = [sagas EXCEPT ![i] = [o.promise EXCEPT !.receiver = NoAccount]]
        /\ snap' = [slot |-> i, owner |-> caller, receiver |-> o.promise.receiver,
                    assets |-> o.promise.assets,
                    preT |-> total_assets, preS |-> total_supply,
                    preB |-> ft_balance_of(Self, caller)]
        /\ last' = Call(op, TRUE, VOID)
        /\ UNCHANGED <<asset, overflow_checks, held>>

\* The receivers a caller can name: nobody (itself) or the other user.
Receivers(caller) == {NoAccount} \cup (Users \ {caller})

RedeemOutcome(caller, attached, shares, receiver_id) ==
    NonPayable(Self, attached, redeem(Self, caller, shares, receiver_id))

RedeemCall(caller, attached, shares, receiver_id) ==
    Issue("redeem", caller, RedeemOutcome(caller, attached, shares, receiver_id))

Redeem ==
    \E caller \in Users, attached \in {0, 1}, shares \in Amounts :
        \E receiver_id \in Receivers(caller) :
            RedeemCall(caller, attached, shares, receiver_id)

RedeemPanics ==
    /\ ~ \A caller \in Users, attached \in {0, 1}, shares \in Amounts :
        \A receiver_id \in Receivers(caller) :
            RedeemOutcome(caller, attached, shares, receiver_id).ok
    /\ Failed("redeem")

WithdrawOutcome(caller, attached, assets, receiver_id) ==
    NonPayable(Self, attached, withdraw(Self, caller, assets, receiver_id))

WithdrawCall(caller, attached, assets, receiver_id) ==
    Issue("withdraw", caller, WithdrawOutcome(caller, attached, assets, receiver_id))

Withdraw ==
    \E caller \in Users, attached \in {0, 1}, assets \in Amounts :
        \E receiver_id \in Receivers(caller) :
            WithdrawCall(caller, attached, assets, receiver_id)

WithdrawPanics ==
    /\ ~ \A caller \in Users, attached \in {0, 1}, assets \in Amounts :
        \A receiver_id \in Receivers(caller) :
            WithdrawOutcome(caller, attached, assets, receiver_id).ok
    /\ Failed("withdraw")

\* The external ledger executes (or fails) an issued transfer.  It can only
\* succeed when the vault owns the amount.  With no continuation chained
\* (lib.rs) the promise's outcome is what the original caller observes and
\* nothing else runs for this withdrawal: the slot keeps the outcome only.
TransferSettle ==
    \E i \in Slots, success \in BOOLEAN :
        LET s == sagas[i]
            status == IF success THEN "TransferOk" ELSE "TransferFailed"
        IN
        /\ s.status = "Committed"
        /\ success => held >= s.assets
        /\ held' = IF success THEN held - s.assets ELSE held
        /\ sagas' = [sagas EXCEPT ![i] = IF s.cb > 0 THEN [s EXCEPT !.status = status]
                                         ELSE Ended(status)]
        /\ snap' = IF snap.slot = i THEN snap ELSE NoSnap
        /\ last' = Call("transfer", success, IF success THEN VOID ELSE PANIC)
        /\ UNCHANGED <<asset, overflow_checks, total_assets, accounts, total_supply>>

\* ------------------------------------------- withdrawals with continuation
\* The deposit handler of internal.rs in place of the one of lib.rs.
InternalMtDepositOutcome(caller, sender, token_ids, amounts, msg) ==
    internal_handle_mt_deposit(Self, caller, sender, token_ids, amounts, msg)

InternalMtDepositCall(caller, sender, token_ids, amounts, msg) ==
    LET o == InternalMtDepositOutcome(caller, sender, token_ids, amounts, msg)
        amount == Delivered(token_ids, amounts)
        kept == IF Len(o.rets) >= 1 /\ Len(o.rets) = Len(amounts)
                THEN amount - Min(o.rets[1], amount) ELSE 0
    IN /\ Deliverable(caller, amount)
       /\ o.ok
       /\ Store(o.st)
       /\ held' = IF caller = AssetContract THEN held + kept ELSE held
       /\ snap' = NoSnap
       /\ last' = Call("mt_on_transfer", TRUE, o.ret)
       /\ UNCHANGED <<asset, overflow_checks, sagas>>

InternalMtDeposit ==
    \E n \in MtNotifiers, b \in Batches, msg \in MtMsgs :
        InternalMtDepositCall(n[1], n[2], b[1], b[2], msg)

InternalMtDepositPanics ==
    /\ ~ \A n \in MtNotifiers, b \in Batches, msg \in MtMsgs :
            Deliverable(n[1], Delivered(b[1], b[2])) =>
                InternalMtDepositOutcome(n[1], n[2], b[1], b[2], msg).ok
    /\ Failed("mt_on_transfer")

\* internal_execute_withdrawal has no caller in the source: it is driven
\* with every owner, receiver and pair of amounts its own checks admit.
ExecuteWithdrawalOutcome(owner, receiver_id, shares, assets) ==
    internal_execute_withdrawal(Self, owner, receiver_id, shares, assets)

ExecuteWithdrawalCall(owner, receiver_id, shares, assets) ==
    Issue("internal_execute_withdrawal", owner,
          ExecuteWithdrawalOutcome(owner, receiver_id, shares, assets))

ExecuteWithdrawal ==
    \E owner \in Users, shares \in Amounts, assets \in Amounts :
        \E receiver_id \in Receivers(owner) :
            ExecuteWithdrawalCall(owner, receiver_id, shares, assets)

ExecuteWithdrawalPanics ==
    /\ ~ \A owner \in Users, shares \in Amounts, assets \in Amounts :
        \A receiver_id \in Receivers(owner) :
            ExecuteWithdrawalOutcome(owner, receiver_id, shares, assets).ok
    /\ Failed("internal_execute_withdrawal")

\* What a continuation sees of the promise before it in the chain: a failed
\* transfer or a panicked continuation is a failure, anything else a success.
PromiseSucceeded(s) == s.status \in {"TransferOk", "Finalized", "Compensated"}

\* The host runs the next continuation of a settled transfer.
ResolveWithdraw ==
    \E i \in Slots :
        LET s == sagas[i]
            o == resolve_withdraw(Self, VaultAccount, PromiseSucceeded(s),
                                  s.owner, s.receiver, s.shares, s.assets)
            status == IF ~o.ok THEN "ResolveFailed"
                      ELSE IF PromiseSucceeded(s) THEN "Finalized" ELSE "Compensated"
        IN
        /\ s.status # "Committed"
        /\ s.cb > 0
        /\ Store(o.st)
        /\ sagas' = [sagas EXCEPT ![i] =
                        IF s.cb > 1 THEN [s EXCEPT !.status = status, !.cb = s.cb - 1]
                        ELSE Ended(status)]
        /\ snap' = IF snap.slot = i THEN snap ELSE NoSnap
        /\ last' = Call("resolve_withdraw", o.ok, o.ret)
        /\ UNCHANGED <<asset, overflow_checks, held>>

\* Somebody other than the vault calls the continuation directly.
ResolveWithdrawForged ==
    /\ ~ \A caller \in Users, transferred \in BOOLEAN, owner \in Users,
            shares \in Amounts, assets \in Amounts :
            resolve_withdraw(Self, caller, transferred, owner, owner, shares, assets).ok
    /\ Failed("resolve_withdraw")

Next ==
    \/ StorageDeposit
    \/ FtOnTransfer
    \/ FtOnTransferPanics
    \/ MtOnTransfer
    \/ MtOnTransferPanics
    \/ Redeem
    \/ RedeemPanics
    \/ Withdraw
    \/ WithdrawPanics
    \/ TransferSettle

Spec == Init /\ [][Next]_vars

SagaNext ==
    \/ StorageDeposit
    \/ FtOnTransfer
    \/ FtOnTransferPanics
    \/ InternalMtDeposit
    \/ InternalMtDepositPanics
    \/ ExecuteWithdrawal
    \/ ExecuteWithdrawalPanics
    \/ TransferSettle
    \/ ResolveWithdraw
    \/ ResolveWithdrawForged

\* The contract with the withdrawal path of internal.rs.
SagaSpec == Init /\ [][SagaNext]_vars

\* ------------------------------------------------ handlers on any ledger
\* Every entry point is a function of the contract state and its arguments.
\* Under Spec the supply stays 0, because convert_to_shares_internal
\* multiplies by the supply; what the handlers compute when shares exist is
\* examined by applying them to any state the struct can hold.
Holders == {{}, {"alice"}, {"alice", "bob"}}

RECURSIVE Sum(_, _)
Sum(f, D) ==
    IF D = {} THEN 0
    ELSE LET d == CHOOSE x \in D : TRUE IN f[d] + Sum(f, D \ {d})

\* Any ledger the FungibleToken type can hold (the supply is the sum of the
\* balances) with any asset count the external supply allows; the vault
\* owns what it accounts for.
LedgerInit ==
    /\ asset \in {FtAsset, MtAsset}
    /\ overflow_checks \in BOOLEAN
    /\ \E D \in Holders : accounts \in [D -> 0..U128_MAX]
    /\ total_supply = Sum(accounts, DOMAIN accounts)
    /\ total_supply <= U128_MAX
    /\ total_assets \in 0..ExtSupply
    /\ held = total_assets
    /\ sagas = [i \in Slots |-> Ended("Idle")]
    /\ snap = NoSnap
    /\ last = Call("new", TRUE, 0)

\* FungibleTokenCore::ft_transfer of the vault's shares (lib.rs), delegated
\* to the FungibleToken: one yoctoNEAR attached, a positive amount, another
\* registered account as receiver, and a sufficient balance.
ft_transfer(st, predecessor, attached, receiver_id, amount) ==
    LET debit == internal_withdraw(st, predecessor, amount)
        credit == internal_deposit(debit.st, receiver_id, amount)
    IN IF attached # 1 \/ amount = 0 \/ predecessor = receiver_id
          \/ receiver_id \notin DOMAIN st.accounts
          \/ ~debit.ok \/ ~credit.ok
       THEN Reverted(st)
       ELSE Returned(credit.st, VOID, <<>>)

FtTransferOutcome(caller, attached, receiver_id, amount) ==
    ft_transfer(Self, caller, attached, receiver_id, amount)

FtTransfer ==
    \E caller \in Users, attached \in {0, 1}, amount \in Amounts :
        \E receiver_id \in Users :
            LET o == FtTransferOutcome(caller, attached, receiver_id, amount)
            IN /\ o.ok
               /\ Store(o.st)
               /\ snap' = NoSnap
               /\ last' = Call("ft_transfer", TRUE, VOID)
               /\ UNCHANGED <<asset, overflow_checks, held, sagas>>

FtTransferPanics ==
    /\ ~ \A caller \in Users, attached \in {0, 1}, amount \in Amounts :
        \A receiver_id \in Users :
            FtTransferOutcome(caller, attached, receiver_id, amount).ok
    /\ Failed("ft_transfer")

\* The read-only methods of the vault.
Views ==
    {"convert_to_shares", "convert_to_assets", "preview_deposit", "preview_redeem",
     "preview_withdraw", "max_redeem", "max_withdraw"}

\* The value view `name` returns for account `u` / amount `n`.
ViewResult(name, u, n) ==
    CASE name = "convert_to_shares" -> convert_to_shares(Self, n)
      [] name = "convert_to_assets" -> convert_to_assets(Self, n)
      [] name = "preview_deposit" -> preview_deposit(Self, n)
      [] name = "preview_redeem" -> preview_redeem(Self, n)
      [] name = "preview_withdraw" -> preview_withdraw(Self, n)
      [] name = "max_redeem" -> max_redeem(Self, u)
      [] name = "max_withdraw" -> max_withdraw(Self, u)

\* A view is called: nothing changes but the record of the call.
View ==
    \E name \in Views, u \in Users, n \in Amounts :
        LET v == ViewResult(name, u, n) IN
        /\ last' = Call(name, v # PANIC, v)
        /\ snap' = NoSnap
        /\ UNCHANGED <<asset, total_assets, accounts, total_supply, overflow_checks,
                       held, sagas>>

\* No call has been made on the ledger yet.
Fresh == last.op = "new"

\* One call on that ledger, and the settlement of the transfer it issued.
LedgerNext ==
    \/ Fresh /\ StorageDeposit
    \/ Fresh /\ FtOnTransfer
    \/ Fresh /\ FtOnTransferPanics
    \/ Fresh /\ MtOnTransfer
    \/ Fresh /\ MtOnTransferPanics
    \/ Fresh /\ Redeem
    \/ Fresh /\ RedeemPanics
    \/ Fresh /\ Withdraw
    \/ Fresh /\ WithdrawPanics
    \/ Fresh /\ View
    \/ Fresh /\ FtTransfer
    \/ Fresh /\ FtTransferPanics
    \/ TransferSettle

LedgerSpec == LedgerInit /\ [][LedgerNext]_vars

\* --------------------------------------- the saga on a ledger with shares
\* A vault that has shares in circulation and assets under management, both
\* users registered, nothing in flight.
FundedInit ==
    /\ asset \in {FtAsset, MtAsset}
    /\ overflow_checks \in BOOLEAN
    /\ \E a \in 1..2, b \in 0..1 : accounts = [u \in Users |-> IF u = "alice" THEN a ELSE b]
    /\ total_supply = Sum(accounts, DOMAIN accounts)
    /\ total_assets \in 1..2
    /\ held = total_assets
    /\ sagas = [i \in Slots |-> Ended("Idle")]
    /\ snap = NoSnap
    /\ last = Call("new", TRUE, 0)

\* The latest step committed a withdrawal.
JustCommitted == last.op = "internal_execute_withdrawal" /\ last.ok

\* One withdrawal on that vault, one call of any kind between its commit and
\* its resolution, the settlement of its transfer and its continuation.
FundedSagaNext ==
    \/ Fresh /\ ExecuteWithdrawal
    \/ Fresh /\ ExecuteWithdrawalPanics
    \/ JustCommitted /\ StorageDeposit
    \/ JustCommitted /\ FtOnTransfer
    \/ JustCommitted /\ FtOnTransferPanics
    \/ JustCommitted /\ InternalMtDeposit
    \/ JustCommitted /\ InternalMtDepositPanics
    \/ JustCommitted /\ FtTransfer
    \/ JustCommitted /\ FtTransferPanics
    \/ JustCommitted /\ ResolveWithdrawForged
    \/ TransferSettle
    \/ ResolveWithdraw

\* The withdrawal path of internal.rs on a funded vault.
FundedSagaSpec == FundedInit /\ [][FundedSagaNext]_vars

\* ------------------------------------------------------------ properties
\* The notification the asset contract sends when `sender` transfers
\* `amount` units to the vault with the deposit message.
DepositOutcome(sender, amount) ==
    IF asset.kind = "FungibleToken"
    THEN FtOnTransferOutcome(AssetContract, sender, amount, "deposit")
    ELSE MtOnTransferOutcome(AssetContract, sender, <<TokenId>>, <<amount>>, "deposit")

\* The part of `amount` the asset contract gives back to the sender: all of
\* it when the handler panicked, else what the handler reported unused.
Unused(o, amount) ==
    IF ~o.ok THEN amount
    ELSE IF asset.kind = "FungibleToken" THEN o.ret
    ELSE o.rets[1]

CeilDiv(a, b) == (a + b - 1) \div b

\* Every balance but `who`'s is what it was.
OthersKept(st, who) ==
    /\ DOMAIN st.accounts = DOMAIN accounts
    /\ \A u \in DOMAIN accounts : u # who => st.accounts[u] = accounts[u]

\* C1: on an empty vault (total assets 0, supply 0) a deposit of A > 0 by a
\* registered sender credits exactly A shares, leaves total assets A and
\* supply A, and convert_to_shares(A) = A.
C1_FirstDepositOneToOne ==
    (total_assets = 0 /\ total_supply = 0) =>
        \A sender \in DOMAIN accounts, A \in 1..MaxAmount :
            Deliverable(AssetContract, A) =>
                LET o == DepositOutcome(sender, A) IN
                /\ o.ok
                /\ ft_balance_of(o.st, sender) = A
                /\ o.st.total_assets = A
                /\ o.st.total_supply = A
                /\ convert_to_shares(Self, A) = A

C3_DustRejected ==
    \A sender \in Users, A \in 1..MaxAmount :
        (Deliverable(AssetContract, A) /\ convert_to_shares_internal(Self, A, "Down") = 0) =>
            LET o == DepositOutcome(sender, A) IN
            /\ Unused(o, A) = A
            /\ o.st = Self

\* C4: when a withdrawal that burned shares for assets the vault had is
\* followed at once by the failure of its transfer, then once nothing more
\* is scheduled for it the owner's balance, the supply and total assets are
\* what they were before the call and the result is 0.  Stated for the
\* build that checks overflow.
C4_CompensationRestores ==
    ( /\ overflow_checks
      /\ snap.slot # 0
      /\ snap.assets \in 1..snap.preT
      /\ ~InFlight(sagas[snap.slot])
      /\ sagas[snap.slot].status \notin {"Idle", "TransferOk", "Finalized"} ) =>
        /\ total_assets = snap.preT
        /\ total_supply = snap.preS
        /\ ft_balance_of(Self, snap.owner) = snap.preB
        /\ last.ret = 0

\* C5: no withdrawal is left unresolved: the step after which nothing more
\* is scheduled for a committed withdrawal of assets leaves it finalized
\* (its transfer succeeded) or compensated.  Stated for the build that
\* checks overflow.
C5_NoWithdrawalStuck ==
    [][\A i \in Slots :
        ( /\ overflow_checks
          /\ InFlight(sagas[i])
          /\ sagas[i].assets > 0
          /\ ~InFlight(sagas'[i]) ) =>
            sagas'[i].status \in {"TransferOk", "Finalized", "Compensated"}
      ]_vars

C7_BeyondMaxFails ==
    overflow_checks =>
        \A caller \in Users, n \in Amounts :
            \A receiver_id \in Receivers(caller) :
                /\ n > max_redeem(Self, caller) =>
                        ~RedeemOutcome(caller, 0, n, receiver_id).ok
                /\ (max_withdraw(Self, caller) # PANIC /\ n > max_withdraw(Self, caller)) =>
                        ~WithdrawOutcome(caller, 0, n, receiver_id).ok

\* C8: in a non-empty vault, depositing X and at once redeeming the shares
\* the deposit minted (the transfer succeeding) changes the user's assets by
\* d = unused + redeemed - X with -1 <= d <= 0.
C8_RoundTrip ==
    (total_assets > 0 \/ total_supply > 0) =>
        \A u \in DOMAIN accounts, X \in 1..MaxAmount :
            LET d == DepositOutcome(u, X)
                minted == ft_balance_of(d.st, u) - ft_balance_of(Self, u)
                r == redeem(d.st, u, minted, NoAccount)
            IN (Deliverable(AssetContract, X) /\ d.ok /\ r.ok) =>
                    Unused(d, X) + r.promise.assets - X \in {-1, 0}

\* C9: a withdraw of a <= T assets that returns in state (T, S) burns
\* exactly ceil(a*S/(T+1)) shares of the caller, lowers total assets by
\* exactly a and issues a transfer of exactly a to the receiver.
C9_WithdrawExact ==
    \A caller \in Users, a \in Amounts :
        \A receiver_id \in Receivers(caller) :
            LET o == WithdrawOutcome(caller, 0, a, receiver_id)
                burned == CeilDiv(a * total_supply, total_assets + 1)
            IN (o.ok /\ a <= total_assets) =>
                /\ ft_balance_of(o.st, caller) = ft_balance_of(Self, caller) - burned
                /\ OthersKept(o.st, caller)
                /\ o.st.total_supply = total_supply - burned
                /\ o.st.total_assets = total_assets - a
                /\ o.promise.status = "Committed"
                /\ o.promise.assets = a
                /\ o.promise.receiver =
                        (IF receiver_id = NoAccount THEN caller ELSE receiver_id)

\* A withdraw returned after burning shares for assets the vault had.
C9_Witness ==
    /\ last.op = "withdraw"
    /\ last.ok
    /\ snap.assets \in 1..snap.preT
    /\ total_supply < snap.preS
    /\ total_assets = snap.preT - snap.assets

\* C10: a redeem of s shares that returns in state (T, S), the assets it is
\* worth being covered by T, burns exactly s shares of the caller, lowers
\* total assets by exactly floor(s*(T+1)/S) (0 when S = 0) and issues a
\* transfer of exactly that amount to the receiver, the caller when none is
\* named.
C10_RedeemExact ==
    \A caller \in Users, s \in Amounts :
        \A receiver_id \in Receivers(caller) :
            LET o == RedeemOutcome(caller, 0, s, receiver_id)
                worth == IF total_supply = 0 THEN 0
                         ELSE (s * (total_assets + 1)) \div total_supply
            IN (o.ok /\ worth <= total_assets) =>
                /\ ft_balance_of(o.st, caller) = ft_balance_of(Self, caller) - s
                /\ OthersKept(o.st, caller)
                /\ o.st.total_supply = total_supply - s
                /\ o.st.total_assets = total_assets - worth
                /\ o.promise.status = "Committed"
                /\ o.promise.assets = worth
                /\ o.promise.receiver =
                        (IF receiver_id = NoAccount THEN caller ELSE receiver_id)

\* A redeem returned after burning shares worth assets the vault had, with
\* no receiver named other than by default.
C10_Witness ==
    /\ last.op = "redeem"
    /\ last.ok
    /\ snap.assets \in 1..snap.preT
    /\ total_supply < snap.preS
    /\ snap.receiver = snap.owner

C13_ZeroConvertsToZero ==
    /\ convert_to_shares(Self, 0) = 0
    /\ convert_to_assets(Self, 0) = 0

\* ------------------------------------------------------ deposit intents
\* The msg a depositor attaches to state an intent is a JSON object
\* (tests/helper/vault.rs); entry m of each sequence carries the bound m.
MinSharesMsg ==
    <<"{\"min_shares\":\"1\"}", "{\"min_shares\":\"2\"}",
      "{\"min_shares\":\"3\"}", "{\"min_shares\":\"4\"}">>

MaxSharesMsg ==
    <<"{\"max_shares\":\"1\"}", "{\"max_shares\":\"2\"}",
      "{\"max_shares\":\"3\"}", "{\"max_shares\":\"4\"}">>

\* The message naming account `u` as the receiver of the shares.
ReceiverMsg(u) ==
    IF u = "alice" THEN "{\"receiver_id\":\"alice\"}" ELSE "{\"receiver_id\":\"bob\"}"

\* Messages that state no intent: the empty object the test helper sends
\* when no option is given, and text that is not JSON.
UnparsableMsgs == {"{}", "not an intent"}

\* The notification the asset contract sends when `sender` transfers
\* `amount` units to the vault with message `msg`.
IntentOutcome(sender, amount, msg) ==
    IF asset.kind = "FungibleToken"
    THEN FtOnTransferOutcome(AssetContract, sender, amount, msg)
    ELSE MtOnTransferOutcome(AssetContract, sender, <<TokenId>>, <<amount>>, msg)

\* C14: a deposit notification whose message carries min_shares = m while
\* floor(amount * S / (T + 1)) < m is rejected entirely: the whole amount is
\* unused and total assets, supply and every balance stay as they were.
\* On an empty vault only amounts below m are taken, which no conversion
\* rule turns into m shares.
C14_SlippageRejected ==
    \A sender \in Users, amount \in 1..MaxAmount, m \in DOMAIN MinSharesMsg :
        LET o == IntentOutcome(sender, amount, MinSharesMsg[m])
        IN (/\ Deliverable(AssetContract, amount)
            /\ total_assets < U128_MAX
            /\ amount * total_supply <= U128_MAX
            /\ (amount * total_supply) \div (total_assets + 1) < m
            /\ (total_supply = 0 => amount < m)) =>
                /\ Unused(o, amount) = amount
                /\ o.st = Self

\* C15: a deposit notification whose message carries max_shares = m below
\* the share count floor(amount * S / (T + 1)) mints exactly m shares to the
\* sender, adds used = ceil(m * (T + 1) / S) to total assets and reports
\* amount - used unused; on an empty vault a deposit larger than m mints m
\* shares, uses m and gives back the rest.
C15_SlippageCap ==
    \A sender \in DOMAIN accounts, amount \in 1..MaxAmount, m \in DOMAIN MaxSharesMsg :
        LET o == IntentOutcome(sender, amount, MaxSharesMsg[m])
            used == IF total_supply = 0 THEN m
                    ELSE CeilDiv(m * (total_assets + 1), total_supply)
        IN (/\ Deliverable(AssetContract, amount)
            /\ total_assets + used <= U128_MAX
            /\ total_supply + m <= U128_MAX
            /\ amount * total_supply <= U128_MAX
            /\ m * (total_assets + 1) <= U128_MAX
            /\ IF total_supply = 0 THEN total_assets = 0 /\ m < amount
               ELSE m < (amount * total_supply) \div (total_assets + 1)) =>
                /\ o.ok
                /\ o.st.total_supply = total_supply + m
                /\ o.st.accounts[sender] = accounts[sender] + m
                /\ OthersKept(o.st, sender)
                /\ o.st.total_assets = total_assets + used
                /\ Unused(o, amount) = amount - used

C17_UnparsableIsPlainDeposit ==
    \A sender \in DOMAIN accounts, amount \in 1..MaxAmount, msg \in UnparsableMsgs :
        LET o == IntentOutcome(sender, amount, msg)
            shares == (amount * total_supply) \div (total_assets + 1)
        IN (/\ Deliverable(AssetContract, amount)
            /\ total_assets + amount <= U128_MAX
            /\ amount * total_supply <= U128_MAX
            /\ total_supply + shares <= U128_MAX) =>
                /\ shares > 0 =>
                    /\ o.ok
                    /\ o.st.accounts[sender] = accounts[sender] + shares
                    /\ o.st.total_supply = total_supply + shares
                    /\ OthersKept(o.st, sender)
                /\ o.st.total_assets # total_assets => o.st.total_supply > total_supply

\* Accounts other than the asset contract that may call the vault.
Strangers == Users \cup {VaultAccount}

\* C18: a transfer notification (ft_on_transfer, mt_on_transfer) called by
\* anybody but the configured asset contract changes neither total assets
\* nor the share ledger, and either fails or reports the whole amount
\* unused.
C18_OriginCheck ==
    \A caller \in Strangers, sender \in Users, msg \in Msgs :
        /\ \A amount \in Amounts :
                LET o == ft_on_transfer(Self, caller, sender, amount, msg)
                IN o.st = Self /\ (~o.ok \/ o.ret = amount)
        /\ \A b \in Batches :
                LET o == mt_on_transfer(Self, caller, sender, b[1], b[2], msg)
                    i == internal_handle_mt_deposit(Self, caller, sender, b[1], b[2], msg)
                IN /\ o.st = Self /\ (~o.ok \/ o.rets = b[2])
                   /\ i.st = Self /\ (~i.ok \/ i.rets = b[2])

\* A notification failed on a ledger with shares in circulation on which
\* no notification from the asset contract fails: it came from a stranger.
C18_Witness ==
    /\ last.op = "ft_on_transfer"
    /\ ~last.ok
    /\ asset.kind = "FungibleToken"
    /\ total_supply > 0
    /\ \A sender \in Users, amount \in Amounts, msg \in Msgs :
            Deliverable(AssetContract, amount) =>
                FtOnTransferOutcome(AssetContract, sender, amount, msg).ok
    /\ \E n \in Notifiers : n[1] \in Strangers /\ ~FtOnTransferOutcome(n[1], n[2], 1, "deposit").ok

\* C19: mt_on_transfer on a vault whose asset is not a multi-token asset,
\* or with an item id other than the configured one, or with a batch of
\* more or fewer than one item, echoes the amounts back or fails, and
\* leaves total assets, supply and every balance as they were.
C19_MtRejection ==
    \A caller \in Strangers \cup {AssetContract}, sender \in Users,
       b \in Batches, msg \in Msgs :
        (\/ asset.kind # "MultiToken"
         \/ Len(b[1]) # 1
         \/ b[1][1] # TokenId) =>
            LET o == mt_on_transfer(Self, caller, sender, b[1], b[2], msg)
                i == internal_handle_mt_deposit(Self, caller, sender, b[1], b[2], msg)
            IN /\ o.st = Self /\ (~o.ok \/ o.rets = b[2])
               /\ i.st = Self /\ (~i.ok \/ i.rets = b[2])

\* A multi-token notification returned on a vault of a single-token asset
\* that holds assets and has shares in circulation.
C19_Witness ==
    /\ last.op = "mt_on_transfer"
    /\ last.ok
    /\ asset.kind = "FungibleToken"
    /\ total_supply > 0
    /\ total_assets > 0
    /\ MtOnTransferOutcome(AssetContract, "alice", <<TokenId>>, <<1>>, "deposit").rets = <<1>>

\* C20: redeem(0), withdraw(0) and every redeem whose asset amount
\* floor(shares * (T + 1) / S) is 0 fail: no share is burned, total assets
\* stay and no transfer is issued.
C20_ZeroAmountFails ==
    \A caller \in Users, attached \in {0, 1} :
        \A receiver_id \in Receivers(caller) :
            /\ ~RedeemOutcome(caller, attached, 0, receiver_id).ok
            /\ ~WithdrawOutcome(caller, attached, 0, receiver_id).ok
            /\ \A shares \in Amounts :
                    (/\ total_supply > 0
                     /\ total_assets < U128_MAX
                     /\ shares * (total_assets + 1) <= U128_MAX
                     /\ (shares * (total_assets + 1)) \div total_supply = 0) =>
                        ~RedeemOutcome(caller, attached, shares, receiver_id).ok

C22_ResolveSelfOnly ==
    \A caller \in Users \cup {AssetContract}, transferred \in BOOLEAN,
       owner \in Users, shares \in Amounts, assets \in Amounts :
        \A receiver \in Users :
            LET o == resolve_withdraw(Self, caller, transferred, owner, receiver,
                                      shares, assets)
            IN ~o.ok /\ o.st = Self

\* A direct call of the continuation failed while a failed transfer awaits
\* its compensation and no continuation run by the host has failed.
C22_Witness ==
    /\ last.op = "resolve_withdraw"
    /\ ~last.ok
    /\ \A i \in Slots : sagas[i].status # "ResolveFailed"
    /\ \E i \in Slots : sagas[i].status = "TransferFailed" /\ sagas[i].cb > 0

\* C23: mul_div(x, y, d, r) fails whenever x * y is beyond the u128 range,
\* and every value it returns is the floor (Down) or the ceiling (Up) of the
\* exact product divided by d; a deposit, withdraw or redeem whose
\* conversion overflows fails and changes nothing.  x is any u128, y and d
\* are the supply and T + 1 in either order, as the conversions pass them.
C23_MulDivOverflowFails ==
    /\ \A x \in 0..U128_MAX, r \in Rounding :
        \A yd \in {<<total_supply, total_assets + 1>>, <<total_assets + 1, total_supply>>} :
            LET y == yd[1]
                d == yd[2]
                v == mul_div(x, y, d, r)
            IN total_assets < U128_MAX =>
               /\ x * y > U128_MAX => v = PANIC
               /\ v # PANIC =>
                    /\ x * y <= U128_MAX
                    /\ d > 0
                    /\ v = IF r = "Down" THEN (x * y) \div d ELSE CeilDiv(x * y, d)
    /\ \A u \in Users, n \in Amounts :
            /\ n * total_supply > U128_MAX =>
                    /\ ~DepositOutcome(u, n).ok
                    /\ DepositOutcome(u, n).st = Self
                    /\ ~WithdrawOutcome(u, 0, n, NoAccount).ok
                    /\ WithdrawOutcome(u, 0, n, NoAccount).st = Self
            /\ (total_supply > 0 /\ total_assets < U128_MAX
                    /\ n * (total_assets + 1) > U128_MAX) =>
                    /\ ~RedeemOutcome(u, 0, n, NoAccount).ok
                    /\ RedeemOutcome(u, 0, n, NoAccount).st = Self

\* convert_to_shares was called with an amount whose product with the
\* supply is beyond the range, on a vault whose divisor T + 1 is not zero,
\* and the call failed.
C23_Witness ==
    /\ last.op = "convert_to_shares"
    /\ last.ret = PANIC
    /\ total_assets < U128_MAX
    /\ MaxAmount * total_supply > U128_MAX
    /\ mul_div(MaxAmount, total_supply, total_assets + 1, "Down") = PANIC
    /\ mul_div(1, total_supply, total_assets + 1, "Down") # PANIC

C26_CommitBeforeTransfer ==
    [][\A i \in Slots :
        (sagas'[i] # sagas[i] /\ sagas'[i].status = "Committed") =>
            LET owner == snap'.owner IN
            /\ owner \in DOMAIN accounts
            /\ sagas'[i].shares <= accounts[owner]
            /\ sagas'[i].assets <= total_assets
            /\ accounts'[owner] = accounts[owner] - sagas'[i].shares
            /\ total_supply' = total_supply - sagas'[i].shares
            /\ total_assets' = total_assets - sagas'[i].assets]_vars

C29_NoUnderflow ==
    \A caller \in Users, n \in Amounts :
        \A receiver_id \in Receivers(caller) :
            LET w == WithdrawOutcome(caller, 0, n, receiver_id)
                r == RedeemOutcome(caller, 0, n, receiver_id)
                assets == convert_to_assets_internal(Self, n, "Down")
            IN /\ n > total_assets => (~w.ok /\ w.st = Self)
               /\ (assets # PANIC /\ assets > total_assets) => (~r.ok /\ r.st = Self)

\* C30: for every deposit amount and every share count up to the shares the
\* amount converts to (rounded down), the assets those shares convert to
\* (rounded up) do not exceed the amount, so amount - used never underflows;
\* and a deposit never adds more to total assets than the amount delivered
\* less the amount reported unused.
C30_UsedWithinAmount ==
    /\ \A amount \in 0..U128_MAX :
            LET max_shares == convert_to_shares_internal(Self, amount, "Down")
            IN (total_assets < U128_MAX /\ max_shares # PANIC) =>
                \A shares \in 0..max_shares :
                    LET used == convert_to_assets_internal(Self, shares, "Up")
                    IN used # PANIC /\ used <= amount
    /\ \A sender \in Users, amount \in Amounts, msg \in Msgs :
            LET o == IntentOutcome(sender, amount, msg)
            IN o.ok => o.st.total_assets <= total_assets + (amount - Unused(o, amount))

\* preview_deposit returned 1 share on a vault where that share converts
\* back to 2 assets, fewer than the 3 assets that buy it.
C30_Witness ==
    /\ last.op = "preview_deposit"
    /\ last.ret = 1
    /\ total_supply = 1
    /\ total_assets = 1
    /\ convert_to_shares_internal(Self, 3, "Down") = 1
    /\ convert_to_assets_internal(Self, 1, "Up") = 2

\* C31: a successful deposit, redeem or withdraw that takes the vault from
\* (T, S) to (T', S') with S > 0 and S' > 0 satisfies
\* (T' + 1) * S >= (T + 1) * S': the assets behind each existing share do
\* not decrease.
C31_NonDilution ==
    [][(/\ last'.op \in {"ft_on_transfer", "mt_on_transfer", "redeem", "withdraw"}
        /\ last'.ok
        /\ total_supply > 0
        /\ total_supply' > 0) =>
            (total_assets' + 1) * total_supply >= (total_assets + 1) * total_supply']_vars

\* A deposit minted a share on a vault that had shares: supply 2 and total
\* assets 4 after the deposit of 3 at supply 1, total assets 1.
C31_Witness ==
    /\ last.op = "ft_on_transfer"
    /\ last.ok
    /\ last.ret = 0
    /\ total_supply = 2
    /\ total_assets = 4
    /\ held = 4
    /\ \E u \in DOMAIN accounts : accounts[u] = 2

\* Messages a multi-token notification may carry: the literal deposit
\* text, an empty intent, and intents with a slippage bound or a receiver.
MtIntentMsgs ==
    Msgs \cup {MinSharesMsg[MaxAmount], MaxSharesMsg[1]} \cup {ReceiverMsg(u) : u \in Users}

C33_MulDivRounding ==
    \A x \in 0..U128_MAX :
        \A yd \in {<<total_supply, total_assets + 1>>, <<total_assets + 1, total_supply>>} :
            LET y == yd[1]
                d == yd[2]
                down == mul_div(x, y, d, "Down")
                up == mul_div(x, y, d, "Up")
            IN (d > 0 /\ x * y <= U128_MAX) =>
                /\ down # PANIC /\ up # PANIC
                /\ down * d <= x * y /\ x * y < (down + 1) * d
                /\ up = IF (x * y) % d # 0 THEN down + 1 ELSE down
                /\ up - down \in {0, 1}
                /\ up * d >= x * y
                /\ \A q \in 0..U128_MAX : q * d >= x * y => up <= q

\* preview_withdraw of 1 asset returned 2 shares on a vault with 3 shares
\* over 1 asset: 1 * 3 / 2 leaves a remainder, Down gives 1 and Up gives 2.
C33_Witness ==
    /\ last.op = "preview_withdraw"
    /\ last.ret = 2
    /\ total_supply = 3
    /\ total_assets = 1
    /\ mul_div(1, 3, 2, "Down") = 1
    /\ mul_div(1, 3, 2, "Up") = 2

C36_Solvency == total_assets <= held

\* C37: no conversion divides by zero.  In every state total assets + 1
\* does not overflow, the divisor on the share side (T + 1) is at least 1,
\* the divisor on the asset side (S) is used only when S > 0, and so no
\* conversion whose product is within range fails.
C37_NoDivisionByZero ==
    /\ total_assets + 1 <= U128_MAX
    /\ U128Add(total_assets, 1) >= 1
    /\ \A n \in 0..U128_MAX, r \in Rounding :
        /\ n * total_supply <= U128_MAX =>
                convert_to_shares_internal(Self, n, r) # PANIC
        /\ n * (total_assets + 1) <= U128_MAX =>
                convert_to_assets_internal(Self, n, r) # PANIC

====
